---- MODULE Spec2Model ----
(***************************************************************************)
(* TinyG2 xio.cpp - extended IO functions.                                 *)
(*                                                                         *)
(* The module models the resumable line reader (read_char / read_line),    *)
(* the xio singleton (integrity sentinels, device and channel tables,      *)
(* SPI state), the USB connection notifications, xio_callback and          *)
(* xio_set_spi.                                                            *)
(***************************************************************************)
EXTENDS Integers, Sequences, FiniteSets, TLC

(***************************************************************************)
(* Bounds of the model.                                                    *)
(***************************************************************************)
\* capacity of the caller's line buffer; the size argument ranges over 0..MaxSize
MaxSize == 3
\* number of bytes the byte source delivers in one behaviour
MaxStream == 3
\* connection notifications per device between two xio_callback invocations
MaxNotes == 2
\* number of device records of xio.d (DEV_USB0 and DEV_USB1 are two of them)
DEV_MAX == 2
\* number of channel records of xio.c
CHAN_MAX == 2
\* nv->value is a float; the model takes it from the multiples of 1/ValueDen
ValueDen == 2
\* operations in one run of the whole program
MaxSteps == 5

(***************************************************************************)
(* Program constants.                                                      *)
(***************************************************************************)
NUL == 0
LF == 10
CR == 13
\* read_char() returns -1 when no character is available
FDEV_ERR == -1
\* what a byte source that can tell end of stream from "no data yet" returns at
\* the end: an int that is neither a byte nor _FDEV_ERR
FDEV_EOF == FDEV_ERR - 1
\* uint16_t *index: the cursor is a 16 bit unsigned integer
IndexMod == 65536
\* (uint8_t)c: a stored character is an 8 bit unsigned integer
ByteMod == 256

\* xio_set_spi(): 0=disable, 1=enable
SPI_DISABLE == 0
SPI_ENABLE == 1
\* indices of the two USB serial devices in xio.d
DEV_USB0 == 0
DEV_USB1 == 1
\* the value of an intact integrity sentinel
MAGICNUM == 4847

STAT_OK == "STAT_OK"
STAT_EAGAIN == "STAT_EAGAIN"
STAT_BUFFER_FULL == "STAT_BUFFER_FULL"
STAT_FILE_SIZE_EXCEEDED == "STAT_FILE_SIZE_EXCEEDED"
STAT_XIO_ASSERTION_FAILURE == "STAT_XIO_ASSERTION_FAILURE"
\* documented in the header comment of read_line (lines 141-142)
STAT_EOF == "STAT_EOF"

\* connection states a notification writes to next_state; 0 is "no change pending"
DEVICE_NOT_CONNECTED == 1
DEVICE_CONNECTED == 2
\* pin modes
kInput == "kInput"
kOutput == "kOutput"

Devs == 0..(DEV_MAX - 1)
Chans == 0..(CHAN_MAX - 1)
\* values memory corruption can leave in a sentinel, and the intact one
MagicValues == {0, MAGICNUM, MAGICNUM + 1}
\* numerators (over ValueDen) of the values given to xio_set_spi: -1 .. 3 in
\* steps of 1/ValueDen, and the values around the top of the uint8_t range
SpiValues == ((0 - ValueDen)..(3 * ValueDen))
             \cup {255 * ValueDen, 255 * ValueDen + 1, 256 * ValueDen, 257 * ValueDen}

\* bytes the USB serial line delivers: the two terminators and two ordinary characters
Bytes == {LF, CR, 65, 66}
\* content of the caller's buffer before read_line has written to it
Filler == ByteMod - 1
\* a buffer the caller has not yet written to
Clean == [p \in 0..(MaxSize - 1) |-> Filler]

VARIABLES
    stream,     \* every byte SerialUSB has received so far, in arrival order
    rd,         \* number of bytes of stream that readByte() has handed out
    buffer,     \* the caller's line buffer, positions 0..MaxSize-1
    index,      \* the caller's cursor (*index)
    size,       \* the size argument of the last read_line call
    rl_stat,    \* status returned by the last read_line call ("none" before the first)
    rl_entry,   \* *index on entry to the last read_line call
    rl_rd,      \* rd on entry to the last read_line call
    seq_start,  \* rd when the current call sequence (first call plus EAGAIN retries) began
    seq_index,  \* *index when the current call sequence began
    seq_buf,    \* buffer when the current call sequence began
    seq_calls,  \* calls of the current call sequence: 0 none, 1 one, 2 two or more
    pc,         \* "boot" before xio_init has run, "run" after
    magic_start, \* xio.magic_start
    magic_end,  \* xio.magic_end
    xio_d,      \* xio.d[]: current_state and next_state of every device
    xio_c,      \* xio.c[]: type and the remaining fields of every channel
    spi_state,  \* xio.spi_state
    pins,       \* modes of spi_miso_pin, spi_mosi_pin and spi_sck_pin
    last,       \* the last xio operation: its name, its argument, the status returned
    notes,      \* per device: the notifications since the last xio_callback, in order
    observed,   \* per device: what the last xio_callback read, and the notes it followed
    run,        \* the read_line call in progress, when the call is followed fetch by fetch
    steps,      \* number of operations so far, when a behaviour mixes all operations
    lines       \* what a caller that takes one line after another has been handed so far

rvars == <<stream, rd, buffer, index, size, rl_stat, rl_entry, rl_rd,
           seq_start, seq_index, seq_buf, seq_calls>>

xvars == <<pc, magic_start, magic_end, xio_d, xio_c, spi_state, pins, last, notes, observed>>

\* auxiliary variables; only the specifications that follow a call fetch by fetch,
\* mix all operations or collect lines change them
avars == <<run, steps, lines>>

vars == <<rvars, xvars, avars>>

(***************************************************************************)
(* The byte source.                                                        *)
(***************************************************************************)
\* bytes received and not yet read
Pending == SubSeq(stream, rd + 1, Len(stream))

\* read_char(): the n+1st byte of avail, or FDEV_ERR when none is available
read_char(avail, n) == IF n < Len(avail) THEN avail[n + 1] ELSE FDEV_ERR

(***************************************************************************)
(* read_line(): the for loop, from a cursor idx with n bytes fetched so    *)
(* far in this call.                                                       *)
(***************************************************************************)
\* read_loop with line 159 missing: the terminator stays in the buffer
RECURSIVE read_loop_keeps_terminator(_, _, _, _, _)
read_loop_keeps_terminator(buf, idx, sz, avail, n) ==
    IF ~(idx < sz)
    THEN [stat |-> STAT_BUFFER_FULL, buffer |-> buf, index |-> idx, fetched |-> n]
    ELSE LET c == read_char(avail, n) IN
         IF c # FDEV_ERR
         THEN LET stored == [buf EXCEPT ![idx] = c % ByteMod] IN
              IF (c = LF) \/ (c = CR)
              THEN [stat |-> STAT_OK, buffer |-> stored, index |-> idx, fetched |-> n + 1]
              ELSE read_loop_keeps_terminator(stored, (idx + 1) % IndexMod, sz, avail, n + 1)
         ELSE [stat |-> STAT_EAGAIN, buffer |-> buf, index |-> idx, fetched |-> n]

\* read_loop that advances a local copy of the cursor and writes it back only when
\* the line is complete: on STAT_EAGAIN the caller's cursor is where the call began
RECURSIVE read_loop_rewinds(_, _, _, _, _)
read_loop_rewinds(buf, idx, sz, avail, n) ==
    IF ~(idx < sz)
    THEN [stat |-> STAT_BUFFER_FULL, buffer |-> buf, index |-> idx, fetched |-> n]
    ELSE LET c == read_char(avail, n) IN
         IF c # FDEV_ERR
         THEN LET stored == [buf EXCEPT ![idx] = c % ByteMod] IN
              IF (c = LF) \/ (c = CR)
              THEN [stat |-> STAT_OK, buffer |-> [stored EXCEPT ![idx] = NUL],
                    index |-> idx, fetched |-> n + 1]
              ELSE read_loop_rewinds(stored, (idx + 1) % IndexMod, sz, avail, n + 1)
         ELSE [stat |-> STAT_EAGAIN, buffer |-> buf, index |-> idx - n, fetched |-> n]

\* read_loop whose STAT_EAGAIN return happens after the loop increment
RECURSIVE read_loop_skips_slot(_, _, _, _, _)
read_loop_skips_slot(buf, idx, sz, avail, n) ==
    IF ~(idx < sz)
    THEN [stat |-> STAT_BUFFER_FULL, buffer |-> buf, index |-> idx, fetched |-> n]
    ELSE LET c == read_char(avail, n) IN
         IF c # FDEV_ERR
         THEN LET stored == [buf EXCEPT ![idx] = c % ByteMod] IN
              IF (c = LF) \/ (c = CR)
              THEN [stat |-> STAT_OK, buffer |-> [stored EXCEPT ![idx] = NUL],
                    index |-> idx, fetched |-> n + 1]
              ELSE read_loop_skips_slot(stored, (idx + 1) % IndexMod, sz, avail, n + 1)
         ELSE [stat |-> STAT_EAGAIN, buffer |-> buf, index |-> (idx + 1) % IndexMod,
               fetched |-> n]

\* read_loop with the loop condition *index < size - 1
RECURSIVE read_loop_stops_early(_, _, _, _, _)
read_loop_stops_early(buf, idx, sz, avail, n) ==
    IF ~(idx < sz - 1)
    THEN [stat |-> STAT_BUFFER_FULL, buffer |-> buf, index |-> idx, fetched |-> n]
    ELSE LET c == read_char(avail, n) IN
         IF c # FDEV_ERR
         THEN LET stored == [buf EXCEPT ![idx] = c % ByteMod] IN
              IF (c = LF) \/ (c = CR)
              THEN [stat |-> STAT_OK, buffer |-> [stored EXCEPT ![idx] = NUL],
                    index |-> idx, fetched |-> n + 1]
              ELSE read_loop_stops_early(stored, (idx + 1) % IndexMod, sz, avail, n + 1)
         ELSE [stat |-> STAT_EAGAIN, buffer |-> buf, index |-> idx, fetched |-> n]

\* read_loop that takes CR LF as one terminator: after a CR it also fetches an LF
\* that is already waiting
RECURSIVE read_loop_joins_crlf(_, _, _, _, _)
read_loop_joins_crlf(buf, idx, sz, avail, n) ==
    IF ~(idx < sz)
    THEN [stat |-> STAT_BUFFER_FULL, buffer |-> buf, index |-> idx, fetched |-> n]
    ELSE LET c == read_char(avail, n) IN
         IF c # FDEV_ERR
         THEN LET stored == [buf EXCEPT ![idx] = c % ByteMod] IN
              IF (c = LF) \/ (c = CR)
              THEN [stat |-> STAT_OK, buffer |-> [stored EXCEPT ![idx] = NUL],
                    index |-> idx,
                    fetched |-> IF c = CR /\ read_char(avail, n + 1) = LF
                                THEN n + 2 ELSE n + 1]
              ELSE read_loop_joins_crlf(stored, (idx + 1) % IndexMod, sz, avail, n + 1)
         ELSE [stat |-> STAT_EAGAIN, buffer |-> buf, index |-> idx, fetched |-> n]

\* read_loop that fetches before it looks for room: the byte that finds the
\* buffer full is dropped
RECURSIVE read_loop_fetches_first(_, _, _, _, _)
read_loop_fetches_first(buf, idx, sz, avail, n) ==
    LET c == read_char(avail, n) IN
    IF c = FDEV_ERR
    THEN [stat |-> STAT_EAGAIN, buffer |-> buf, index |-> idx, fetched |-> n]
    ELSE IF ~(idx < sz)
         THEN [stat |-> STAT_BUFFER_FULL, buffer |-> buf, index |-> idx, fetched |-> n + 1]
         ELSE LET stored == [buf EXCEPT ![idx] = c % ByteMod] IN
              IF (c = LF) \/ (c = CR)
              THEN [stat |-> STAT_OK, buffer |-> [stored EXCEPT ![idx] = NUL],
                    index |-> idx, fetched |-> n + 1]
              ELSE read_loop_fetches_first(stored, (idx + 1) % IndexMod, sz, avail, n + 1)

\* read_loop whose STAT_OK return happens after the loop increment: the cursor
\* counts the terminator
RECURSIVE read_loop_counts_terminator(_, _, _, _, _)
read_loop_counts_terminator(buf, idx, sz, avail, n) ==
    IF ~(idx < sz)
    THEN [stat |-> STAT_BUFFER_FULL, buffer |-> buf, index |-> idx, fetched |-> n]
    ELSE LET c == read_char(avail, n) IN
         IF c # FDEV_ERR
         THEN LET stored == [buf EXCEPT ![idx] = c % ByteMod] IN
              IF (c = LF) \/ (c = CR)
              THEN [stat |-> STAT_OK, buffer |-> [stored EXCEPT ![idx] = NUL],
                    index |-> (idx + 1) % IndexMod, fetched |-> n + 1]
              ELSE read_loop_counts_terminator(stored, (idx + 1) % IndexMod, sz, avail, n + 1)
         ELSE [stat |-> STAT_EAGAIN, buffer |-> buf, index |-> idx, fetched |-> n]

\* read_loop that terminates the string twice: NUL over the terminator and NUL
\* in the position after it
RECURSIVE read_loop_double_nul(_, _, _, _, _)
read_loop_double_nul(buf, idx, sz, avail, n) ==
    IF ~(idx < sz)
    THEN [stat |-> STAT_BUFFER_FULL, buffer |-> buf, index |-> idx, fetched |-> n]
    ELSE LET c == read_char(avail, n) IN
         IF c # FDEV_ERR
         THEN LET stored == [buf EXCEPT ![idx] = c % ByteMod] IN
              IF (c = LF) \/ (c = CR)
              THEN [stat |-> STAT_OK,
                    buffer |-> [p \in DOMAIN stored |->
                                  IF p = idx \/ p = idx + 1 THEN NUL ELSE stored[p]],
                    index |-> idx, fetched |-> n + 1]
              ELSE read_loop_double_nul(stored, (idx + 1) % IndexMod, sz, avail, n + 1)
         ELSE [stat |-> STAT_EAGAIN, buffer |-> buf, index |-> idx, fetched |-> n]

RECURSIVE read_loop(_, _, _, _, _)
read_loop(buf, idx, sz, avail, n) ==
    IF ~(idx < sz)
    THEN [stat |-> STAT_BUFFER_FULL, buffer |-> buf, index |-> idx, fetched |-> n]
    ELSE LET c == read_char(avail, n) IN
         IF c # FDEV_ERR
         THEN LET stored == [buf EXCEPT ![idx] = c % ByteMod] IN
              IF (c = LF) \/ (c = CR)
              THEN [stat |-> STAT_OK, buffer |-> [stored EXCEPT ![idx] = NUL],
                    index |-> idx, fetched |-> n + 1]
              ELSE read_loop(stored, (idx + 1) % IndexMod, sz, avail, n + 1)
         ELSE [stat |-> STAT_EAGAIN, buffer |-> buf, index |-> idx, fetched |-> n]

\* read_line whose entry test is *index > size
read_line_admits_full(buf, idx, sz, avail) ==
    IF idx > sz
    THEN [stat |-> STAT_FILE_SIZE_EXCEEDED, buffer |-> buf, index |-> idx, fetched |-> 0]
    ELSE read_loop(buf, idx, sz, avail, 0)

read_line(buf, idx, sz, avail) ==
    IF idx >= sz
    THEN [stat |-> STAT_FILE_SIZE_EXCEEDED, buffer |-> buf, index |-> idx, fetched |-> 0]
    ELSE read_loop(buf, idx, sz, avail, 0)

(***************************************************************************)
(* Initial state.                                                          *)
(***************************************************************************)
InitReader ==
    /\ stream = <<>>
    /\ rd = 0
    /\ buffer = Clean
    /\ index = 0
    /\ size = 0
    /\ rl_stat = "none"
    /\ rl_entry = 0
    /\ rl_rd = 0
    /\ seq_start = 0
    /\ seq_index = 0
    /\ seq_buf = Clean
    /\ seq_calls = 0

\* xio is a global object: static storage, all zero before xio_init
InitXio ==
    /\ pc = "boot"
    /\ magic_start = 0
    /\ magic_end = 0
    /\ xio_d = [dv \in Devs |-> [current_state |-> 0, next_state |-> 0]]
    /\ xio_c = [ch \in Chans |-> [type |-> 0, rest |-> 0]]
    /\ spi_state = 0
    /\ pins = [miso |-> kInput, mosi |-> kInput, sck |-> kInput]
    /\ last = [op |-> "none", arg |-> 0, stat |-> "none"]
    /\ notes = [dv \in Devs |-> <<>>]
    /\ observed = [dv \in Devs |-> [read |-> FALSE, val |-> 0, after |-> <<>>]]

\* no read_line call in progress
Idle == [active |-> FALSE, fetches |-> 0, dry |-> 0]

InitAux ==
    /\ run = Idle
    /\ steps = 0
    /\ lines = <<>>

Init == InitReader /\ InitXio /\ InitAux

(***************************************************************************)
(* Actions of the line reader.                                             *)
(***************************************************************************)
\* SerialUSB receives one more byte
Receive(b) ==
    /\ Len(stream) < MaxStream
    /\ stream' = Append(stream, b)
    /\ UNCHANGED <<rd, buffer, index, size, rl_stat, rl_entry, rl_rd,
                   seq_start, seq_index, seq_buf, seq_calls>>
    /\ UNCHANGED xvars

\* one whole read_line(buf, &i, sz) call, reading from the bytes pending in SerialUSB
ReadLineCall(buf, i, sz) ==
    LET r == read_line(buf, i, sz, Pending) IN
    /\ buffer' = r.buffer
    /\ index' = r.index
    /\ size' = sz
    /\ rd' = rd + r.fetched
    /\ rl_stat' = r.stat
    /\ rl_entry' = i
    /\ rl_rd' = rd
    /\ UNCHANGED stream
    /\ UNCHANGED xvars

\* the caller starts a line: a buffer it has not yet written to, any cursor, any size
ReadLineNew(i, sz) ==
    /\ ReadLineCall(Clean, i, sz)
    /\ seq_start' = rd
    /\ seq_index' = i
    /\ seq_buf' = Clean
    /\ seq_calls' = 1

\* the caller calls again with the untouched buffer, cursor and size of its last call;
\* after STAT_EAGAIN this is a retry that continues the call sequence
ReadLineAgain ==
    /\ rl_stat # "none"
    /\ ReadLineCall(buffer, index, size)
    /\ IF rl_stat = STAT_EAGAIN
       THEN /\ seq_calls' = 2
            /\ UNCHANGED <<seq_start, seq_index, seq_buf>>
       ELSE /\ seq_start' = rd
            /\ seq_index' = index
            /\ seq_buf' = buffer
            /\ seq_calls' = 1

NextReader ==
    \/ (\E b \in Bytes : Receive(b)) /\ UNCHANGED avars
    \/ (\E sz \in 0..MaxSize : \E i \in 0..(MaxSize + 1) : ReadLineNew(i, sz))
       /\ UNCHANGED avars
    \/ ReadLineAgain /\ UNCHANGED avars

SpecReader == Init /\ [][NextReader]_vars

(***************************************************************************)
(* Properties of the line reader.                                          *)
(***************************************************************************)
Terminators == {LF, CR}

\* a step that is one read_line call (a call records its cursor and size arguments
\* in rl_entry and size)
ReadLineStep == ReadLineNew(rl_entry', size') \/ ReadLineAgain

\* the buffer handed to the read_line call of a ReadLineStep
EntryBuffer == IF ReadLineAgain THEN buffer ELSE Clean

\* the bytes fetched by the current call sequence
SeqFetched == SubSeq(stream, seq_start + 1, rd)

\* C1: a call sequence started with cursor 0 that ends in STAT_OK has fetched a run
\* of non-terminator bytes followed by one CR or LF; the buffer holds exactly
\* those bytes at 0..cursor-1 and NUL at cursor, and cursor is their number.
C1_LineAssembled ==
    (rl_stat = STAT_OK /\ seq_index = 0) =>
        /\ Len(SeqFetched) >= 1
        /\ SeqFetched[Len(SeqFetched)] \in Terminators
        /\ \A k \in 1..(Len(SeqFetched) - 1) : SeqFetched[k] \notin Terminators
        /\ index = Len(SeqFetched) - 1
        /\ index < size
        /\ \A k \in 1..index : buffer[k - 1] = SeqFetched[k]
        /\ buffer[index] = NUL

\* "AB" then a terminator, assembled over a retry, gives OK with cursor 2
C1_Witness ==
    /\ rl_stat = STAT_OK
    /\ seq_index = 0
    /\ seq_calls = 2
    /\ index = 2
    /\ buffer[0] = 65
    /\ buffer[1] = 66
    /\ buffer[2] = NUL

\* C2: once a call sequence (a call and its retries after STAT_EAGAIN) has
\* returned, its status, cursor, buffer and number of bytes fetched are those of
\* one read_line call on the sequence's initial buffer and cursor that has all the
\* bytes delivered since the sequence began available (after STAT_EAGAIN: as
\* long as no further byte has arrived).
C2_RetryTransparent ==
    (seq_calls >= 1 /\ (rl_stat = STAT_EAGAIN => rd = Len(stream))) =>
        LET one == read_line(seq_buf, seq_index, size,
                             SubSeq(stream, seq_start + 1, Len(stream))) IN
        /\ one.stat = rl_stat
        /\ one.index = index
        /\ one.buffer = buffer
        /\ one.fetched = rd - seq_start

\* a line of two characters completed by a retry
C2_Witness ==
    /\ seq_calls = 2
    /\ rl_stat = STAT_OK
    /\ rl_entry = 1
    /\ index = 2
    /\ seq_index = 0

\* C3: a read_line call that starts below size and finds fewer pending bytes than
\* free positions, none of them CR or LF, returns STAT_EAGAIN with the cursor
\* advanced by the number of pending bytes, those bytes stored from the entry
\* cursor on, and the source drained; and STAT_EAGAIN is returned with the cursor
\* at entry cursor plus the number of bytes fetched, below size.
C3_EagainCursor ==
    [][ReadLineStep =>
        /\ (/\ rl_entry' < size'
            /\ Len(Pending) < size' - rl_entry'
            /\ \A k \in 1..Len(Pending) : Pending[k] \notin Terminators)
           => /\ rl_stat' = STAT_EAGAIN
              /\ index' = rl_entry' + Len(Pending)
              /\ rd' = Len(stream)
              /\ \A k \in 1..Len(Pending) : buffer'[rl_entry' + k - 1] = Pending[k]
        /\ rl_stat' = STAT_EAGAIN
           => /\ index' = rl_entry' + (rd' - rd)
              /\ index' < size'
              /\ rd' = Len(stream)
              /\ \A k \in 1..(rd' - rd) :
                    /\ stream[rd + k] \notin Terminators
                    /\ buffer'[rl_entry' + k - 1] = stream[rd + k]
       ]_vars

\* "AB" with no terminator into a size 3 buffer: EAGAIN, cursor 2, buffer "AB"
C3_Witness ==
    /\ rl_stat = STAT_EAGAIN
    /\ rl_entry = 0
    /\ size = 3
    /\ index = 2
    /\ rd = Len(stream)
    /\ buffer[0] = 65
    /\ buffer[1] = 66

\* C4: a read_line call with size 0 or entry cursor >= size returns
\* STAT_FILE_SIZE_EXCEEDED, leaves buffer and cursor as they were on entry and
\* fetches no byte.
C4_SizeExceeded ==
    [][ReadLineStep =>
        ((size' = 0 \/ rl_entry' >= size') =>
            /\ rl_stat' = STAT_FILE_SIZE_EXCEEDED
            /\ index' = rl_entry'
            /\ buffer' = EntryBuffer
            /\ rd' = rd)
       ]_vars

\* after STAT_BUFFER_FULL the next call with that cursor is refused although a
\* byte is pending
C4_Witness ==
    /\ rl_stat = STAT_FILE_SIZE_EXCEEDED
    /\ size > 0
    /\ index = size
    /\ buffer # Clean
    /\ rd < Len(stream)

\* C5: a read_line call that starts below size and finds at least size - entry
\* cursor pending bytes, the first size - entry cursor of them free of CR and LF,
\* returns STAT_BUFFER_FULL with cursor = size after fetching exactly
\* size - entry cursor bytes.
C5_BufferFull ==
    [][ReadLineStep =>
        ((/\ rl_entry' < size'
          /\ Len(Pending) >= size' - rl_entry'
          /\ \A k \in 1..(size' - rl_entry') : Pending[k] \notin Terminators)
         => /\ rl_stat' = STAT_BUFFER_FULL
            /\ index' = size'
            /\ rd' = rd + (size' - rl_entry')
            /\ \A k \in 1..(size' - rl_entry') : buffer'[rl_entry' + k - 1] = Pending[k])
       ]_vars

\* three ordinary bytes into a size 2 buffer: BUFFER_FULL after 2 bytes, cursor 2
C5_Witness ==
    /\ rl_stat = STAT_BUFFER_FULL
    /\ rl_entry = 0
    /\ size = 2
    /\ index = 2
    /\ rd = 2
    /\ Len(stream) = 3
    /\ stream[3] \notin Terminators


\* C11: a read_line call never leaves the cursor below its entry value; a
\* cursor within 0..size on entry is within 0..size on return; a cursor below size
\* on entry equals size on return only with STAT_BUFFER_FULL, STAT_BUFFER_FULL
\* always returns cursor = size, and the call made next with that cursor and size
\* returns STAT_FILE_SIZE_EXCEEDED.
C11_CursorMonotone ==
    [][ReadLineStep =>
        /\ index' >= rl_entry'
        /\ (rl_entry' <= size') => (index' <= size')
        /\ (rl_entry' < size' /\ index' = size') => rl_stat' = STAT_BUFFER_FULL
        /\ (rl_stat' = STAT_BUFFER_FULL) => index' = size'
        /\ (ReadLineAgain /\ rl_stat = STAT_BUFFER_FULL)
               => (rl_entry' = index /\ rl_stat' = STAT_FILE_SIZE_EXCEEDED /\ index' = index)
       ]_vars

\* "AB" filled a size 2 buffer (BUFFER_FULL), and the call after it was refused
C11_Witness ==
    /\ rl_stat = STAT_FILE_SIZE_EXCEEDED
    /\ rl_entry = 2
    /\ size = 2
    /\ index = 2
    /\ buffer[0] = 65
    /\ buffer[1] = 66

\* C16: a read_line call changes only buffer positions from its entry cursor to
\* its exit cursor that are below size; on STAT_OK the NUL is at the exit cursor,
\* below size; a terminator that arrives as the byte for position size - 1 gives
\* STAT_OK with cursor = size - 1.
C16_WritesInsideWindow ==
    [][ReadLineStep =>
        /\ \A p \in 0..(MaxSize - 1) :
              (buffer'[p] # EntryBuffer[p]) => (rl_entry' <= p /\ p <= index' /\ p < size')
        /\ (rl_stat' = STAT_OK) => (index' < size' /\ buffer'[index'] = NUL)
        /\ (/\ rl_entry' < size'
            /\ Len(Pending) >= size' - rl_entry'
            /\ \A k \in 1..(size' - rl_entry' - 1) : Pending[k] \notin Terminators
            /\ Pending[size' - rl_entry'] \in Terminators)
           => (rl_stat' = STAT_OK /\ index' = size' - 1)
       ]_vars

\* the longest line a size 3 buffer completes: two characters, NUL at position 2
C16_Witness ==
    /\ rl_stat = STAT_OK
    /\ size = 3
    /\ rl_entry = 0
    /\ index = 2
    /\ rd - rl_rd = 3
    /\ buffer[2] = NUL

(***************************************************************************)
(* The xio singleton: initialization and integrity sentinels.              *)
(***************************************************************************)
\* memset(&xio.d[i], 0, sizeof(xioDevice_t))
ZeroDevice == [current_state |-> 0, next_state |-> 0]

\* memset(&xio.c[i], 0, sizeof(xioChannel_t)); xio.c[i].type = i
InitChannel(i) == [type |-> i, rest |-> 0]

\* xio_init with xio.c[i].type = i missing
xio_init_untyped ==
    /\ pc = "boot"
    /\ pc' = "run"
    /\ magic_start' = MAGICNUM
    /\ magic_end' = MAGICNUM
    /\ xio_d' = [dv \in Devs |-> ZeroDevice]
    /\ xio_c' = [ch \in Chans |-> [type |-> 0, rest |-> 0]]
    /\ last' = [op |-> "xio_init", arg |-> 0, stat |-> "void"]
    /\ notes' = [dv \in Devs |-> <<>>]
    /\ UNCHANGED <<spi_state, pins, observed>>
    /\ UNCHANGED rvars

\* xio_init(): xio_init_assertions(), clear every device, clear and number every
\* channel, register the two connection callbacks (they can run from now on)
xio_init ==
    /\ pc = "boot"
    /\ pc' = "run"
    /\ magic_start' = MAGICNUM
    /\ magic_end' = MAGICNUM
    /\ xio_d' = [dv \in Devs |-> ZeroDevice]
    /\ xio_c' = [ch \in Chans |-> InitChannel(ch)]
    /\ last' = [op |-> "xio_init", arg |-> 0, stat |-> "void"]
    /\ notes' = [dv \in Devs |-> <<>>]
    /\ UNCHANGED <<spi_state, pins, observed>>
    /\ UNCHANGED rvars

\* the status xio_test_assertions() returns for sentinel values ms and me
test_assertions_overlooks_end(ms, me) ==
    IF ms # MAGICNUM THEN STAT_XIO_ASSERTION_FAILURE ELSE STAT_OK

test_assertions(ms, me) ==
    IF (ms # MAGICNUM) \/ (me # MAGICNUM) THEN STAT_XIO_ASSERTION_FAILURE ELSE STAT_OK

\* xio_test_assertions()
xio_test_assertions ==
    /\ pc = "run"
    /\ last' = [op |-> "xio_test_assertions", arg |-> 0,
                stat |-> test_assertions(magic_start, magic_end)]
    /\ UNCHANGED <<pc, magic_start, magic_end, xio_d, xio_c, spi_state, pins, notes, observed>>
    /\ UNCHANGED rvars

\* memory corruption (or its repair) overwrites xio.magic_start
WriteMagicStart(v) ==
    /\ pc = "run"
    /\ magic_start' = v
    /\ last' = [op |-> "write_magic", arg |-> 0, stat |-> "void"]
    /\ UNCHANGED <<pc, magic_end, xio_d, xio_c, spi_state, pins, notes, observed>>
    /\ UNCHANGED rvars

\* memory corruption (or its repair) overwrites xio.magic_end
WriteMagicEnd(v) ==
    /\ pc = "run"
    /\ magic_end' = v
    /\ last' = [op |-> "write_magic", arg |-> 0, stat |-> "void"]
    /\ UNCHANGED <<pc, magic_start, xio_d, xio_c, spi_state, pins, notes, observed>>
    /\ UNCHANGED rvars

(***************************************************************************)
(* Connection notifications and xio_callback.                              *)
(***************************************************************************)
\* the state a notification writes
connection_state(connected) ==
    IF connected THEN DEVICE_CONNECTED ELSE DEVICE_NOT_CONNECTED

\* both lambdas writing xio.d[DEV_USB0] (line 72 pasted from line 69 unchanged)
connection_callback_pasted(dv, connected) ==
    /\ pc = "run"
    /\ dv \in {DEV_USB0, DEV_USB1}
    /\ Len(notes[dv]) < MaxNotes
    /\ xio_d' = [xio_d EXCEPT ![DEV_USB0].next_state = connection_state(connected)]
    /\ notes' = [notes EXCEPT ![dv] = Append(@, connected)]
    /\ last' = [op |-> "connection_callback", arg |-> dv, stat |-> "void"]
    /\ UNCHANGED <<pc, magic_start, magic_end, xio_c, spi_state, pins, observed>>
    /\ UNCHANGED rvars

\* the lambda registered for device dv (SerialUSB for DEV_USB0, SerialUSB1 for
\* DEV_USB1) runs with the given argument
connection_callback(dv, connected) ==
    /\ pc = "run"
    /\ dv \in {DEV_USB0, DEV_USB1}
    /\ Len(notes[dv]) < MaxNotes
    /\ xio_d' = [xio_d EXCEPT ![dv].next_state = connection_state(connected)]
    /\ notes' = [notes EXCEPT ![dv] = Append(@, connected)]
    /\ last' = [op |-> "connection_callback", arg |-> dv, stat |-> "void"]
    /\ UNCHANGED <<pc, magic_start, magic_end, xio_c, spi_state, pins, observed>>
    /\ UNCHANGED rvars

\* what xio_callback reads of device dv: line 105 reads xio.d[DEV_USB0].next_state,
\* and xio.d[DEV_USB1].next_state only when the first is 0
callback_reads(dv) ==
    \/ dv = DEV_USB0
    \/ dv = DEV_USB1 /\ xio_d[DEV_USB0].next_state = 0

\* xio_callback that reports a pending change it has not bound yet
xio_callback_reports_pending ==
    /\ pc = "run"
    /\ observed' = [dv \in Devs |->
                      [read |-> callback_reads(dv),
                       val |-> IF callback_reads(dv) THEN xio_d[dv].next_state ELSE 0,
                       after |-> notes[dv]]]
    /\ notes' = [dv \in Devs |-> <<>>]
    /\ last' = [op |-> "xio_callback", arg |-> 0,
                stat |-> IF (xio_d[DEV_USB0].next_state = 0) /\ (xio_d[DEV_USB1].next_state = 0)
                         THEN STAT_OK ELSE STAT_EAGAIN]
    /\ UNCHANGED <<pc, magic_start, magic_end, xio_d, xio_c, spi_state, pins>>
    /\ UNCHANGED rvars

\* xio_callback(): returns STAT_OK on both paths and writes nothing
xio_callback ==
    /\ pc = "run"
    /\ observed' = [dv \in Devs |->
                      [read |-> callback_reads(dv),
                       val |-> IF callback_reads(dv) THEN xio_d[dv].next_state ELSE 0,
                       after |-> notes[dv]]]
    /\ notes' = [dv \in Devs |-> <<>>]
    /\ last' = [op |-> "xio_callback", arg |-> 0, stat |-> STAT_OK]
    /\ UNCHANGED <<pc, magic_start, magic_end, xio_d, xio_c, spi_state, pins>>
    /\ UNCHANGED rvars

(***************************************************************************)
(* xio_set_spi().                                                          *)
(***************************************************************************)
\* the integer part of v / ValueDen (conversion to an integer type truncates
\* toward zero)
truncated(v) == IF v >= 0 THEN v \div ValueDen ELSE 0 - ((0 - v) \div ValueDen)

\* (uint8_t)nv->value: the integer part when uint8_t can represent it; otherwise
\* the conversion is undefined, and builds produce the low byte or a saturated value
uint8_cast(v) ==
    IF truncated(v) >= 0 /\ truncated(v) < ByteMod
    THEN {truncated(v)}
    ELSE {truncated(v) % ByteMod, 0, ByteMod - 1}

\* fp_EQ(a, b): equality within the float tolerance; on the multiples of
\* 1/ValueDen that is equality
fp_EQ(a, b) == a = b

\* xio_set_spi whose enable branch leaves spi_mosi_pin alone
xio_set_spi_forgets_mosi(v) ==
    /\ pc = "run"
    /\ spi_state' \in uint8_cast(v)
    /\ pins' = IF fp_EQ(v, SPI_ENABLE * ValueDen)
               THEN [miso |-> kOutput, mosi |-> pins.mosi, sck |-> kOutput]
               ELSE IF fp_EQ(v, SPI_DISABLE * ValueDen)
               THEN [miso |-> kInput, mosi |-> kInput, sck |-> kInput]
               ELSE pins
    /\ last' = [op |-> "xio_set_spi", arg |-> v, stat |-> STAT_OK]
    /\ UNCHANGED <<pc, magic_start, magic_end, xio_d, xio_c, notes, observed>>
    /\ UNCHANGED rvars

\* xio_set_spi(nv) with nv->value = v / ValueDen, in the __ARM build
xio_set_spi(v) ==
    /\ pc = "run"
    /\ spi_state' \in uint8_cast(v)
    /\ pins' = IF fp_EQ(v, SPI_ENABLE * ValueDen)
               THEN [miso |-> kOutput, mosi |-> kOutput, sck |-> kOutput]
               ELSE IF fp_EQ(v, SPI_DISABLE * ValueDen)
               THEN [miso |-> kInput, mosi |-> kInput, sck |-> kInput]
               ELSE pins
    /\ last' = [op |-> "xio_set_spi", arg |-> v, stat |-> STAT_OK]
    /\ UNCHANGED <<pc, magic_start, magic_end, xio_d, xio_c, notes, observed>>
    /\ UNCHANGED rvars

(***************************************************************************)
(* Specifications of the xio singleton.                                    *)
(***************************************************************************)
\* devices: initialization, connection notifications, the main loop's callback
NextDev ==
    \/ xio_init /\ UNCHANGED avars
    \/ (\E dv \in Devs : \E connected \in BOOLEAN : connection_callback(dv, connected))
       /\ UNCHANGED avars
    \/ xio_callback /\ UNCHANGED avars

SpecDev == Init /\ [][NextDev]_vars

\* integrity sentinels and configuration
NextCfg ==
    \/ xio_init /\ UNCHANGED avars
    \/ (\E v \in MagicValues : WriteMagicStart(v)) /\ UNCHANGED avars
    \/ (\E v \in MagicValues : WriteMagicEnd(v)) /\ UNCHANGED avars
    \/ xio_test_assertions /\ UNCHANGED avars
    \/ (\E v \in SpiValues : xio_set_spi(v)) /\ UNCHANGED avars

SpecCfg == Init /\ [][NextCfg]_vars

(***************************************************************************)
(* Properties of the xio singleton.                                        *)
(***************************************************************************)
\* C6: every xio_callback step clears the next_state of each device that had a
\* change pending and makes the pending value its current_state.
C6_CallbackAppliesPending ==
    [][xio_callback =>
        \A dv \in Devs :
            xio_d[dv].next_state # 0 =>
                /\ xio_d'[dv].next_state = 0
                /\ xio_d'[dv].current_state = xio_d[dv].next_state
       ]_vars

\* C7: when xio_callback reads the next_state of a device that was notified since
\* the previous xio_callback, it reads the state written by the last of those
\* notifications; and a notification for one device leaves the record of every
\* other device as it was.
C7_LastWriteWins ==
    /\ [](\A dv \in Devs :
            (observed[dv].read /\ observed[dv].after # <<>>) =>
                observed[dv].val =
                    connection_state(observed[dv].after[Len(observed[dv].after)]))
    /\ [][\A dv \in Devs :
            (\E connected \in BOOLEAN : connection_callback(dv, connected)) =>
                \A other \in Devs \ {dv} : xio_d'[other] = xio_d[other]
         ]_vars

\* xio_callback read DEV_USB1 after two notifications with different arguments
C7_Witness ==
    /\ last.op = "xio_callback"
    /\ observed[DEV_USB1].read
    /\ observed[DEV_USB1].after = <<TRUE, FALSE>>
    /\ observed[DEV_USB1].val = DEVICE_NOT_CONNECTED
    /\ observed[DEV_USB0].after = <<>>

\* C8: the status xio_test_assertions returned is STAT_OK when both sentinels
\* equal MAGICNUM and STAT_XIO_ASSERTION_FAILURE when either differs, and the call
\* changes nothing of xio.
C8_TestAssertions ==
    /\ [](last.op = "xio_test_assertions" =>
            /\ (magic_start = MAGICNUM /\ magic_end = MAGICNUM) => last.stat = STAT_OK
            /\ (magic_start # MAGICNUM \/ magic_end # MAGICNUM)
                   => last.stat = STAT_XIO_ASSERTION_FAILURE)
    /\ [][xio_test_assertions =>
            UNCHANGED <<magic_start, magic_end, xio_d, xio_c, spi_state, pins>>]_vars

\* only magic_end is corrupted and the check has reported it
C8_Witness ==
    /\ last.op = "xio_test_assertions"
    /\ last.stat = STAT_XIO_ASSERTION_FAILURE
    /\ magic_start = MAGICNUM
    /\ magic_end # MAGICNUM

\* C9: right after xio_init every device record is zero, every channel i has
\* type i and nothing else set, both sentinels equal MAGICNUM, so that
\* xio_test_assertions would return STAT_OK and xio_callback would find no change
\* pending.
C9_AfterInit ==
    last.op = "xio_init" =>
        /\ \A dv \in Devs : xio_d[dv] = ZeroDevice
        /\ \A ch \in Chans : xio_c[ch].type = ch /\ xio_c[ch].rest = 0
        /\ magic_start = MAGICNUM
        /\ magic_end = MAGICNUM
        /\ test_assertions(magic_start, magic_end) = STAT_OK
        /\ xio_d[DEV_USB0].next_state = 0
        /\ xio_d[DEV_USB1].next_state = 0

C9_Witness ==
    /\ last.op = "xio_init"
    /\ pc = "run"
    /\ xio_c[CHAN_MAX - 1].type = CHAN_MAX - 1
    /\ magic_end = MAGICNUM

\* the pin modes C10 states for a call with value v / ValueDen
PinsFor(v) ==
    IF v = SPI_ENABLE * ValueDen
    THEN [miso |-> kOutput, mosi |-> kOutput, sck |-> kOutput]
    ELSE IF v = SPI_DISABLE * ValueDen
    THEN [miso |-> kInput, mosi |-> kInput, sck |-> kInput]
    ELSE pins

C14_CallbackFastPath ==
    [][xio_callback =>
        /\ last'.stat = STAT_OK
        /\ (xio_d[DEV_USB0].next_state = 0 /\ xio_d[DEV_USB1].next_state = 0)
               => UNCHANGED <<xio_d, xio_c, magic_start, magic_end>>
       ]_vars

\* xio_callback has run with nothing pending: it read both devices and found 0
C14_Witness ==
    /\ last.op = "xio_callback"
    /\ last.stat = STAT_OK
    /\ observed[DEV_USB0].read /\ observed[DEV_USB0].val = 0
    /\ observed[DEV_USB1].read /\ observed[DEV_USB1].val = 0

(***************************************************************************)
(* The line reader on a byte source that can signal end of stream.         *)
(***************************************************************************)
AtEnd == \E k \in 1..Len(stream) : stream[k] = FDEV_EOF

\* the source reaches its end: the next read_char() past the data returns the
\* end-of-stream value, and nothing arrives after it
ReceiveEof ==
    /\ ~AtEnd
    /\ Receive(FDEV_EOF)

NextEof ==
    \/ (\E b \in Bytes : ~AtEnd /\ Receive(b)) /\ UNCHANGED avars
    \/ ReceiveEof /\ UNCHANGED avars
    \/ (\E sz \in 0..MaxSize : \E i \in 0..(MaxSize + 1) : ReadLineNew(i, sz))
       /\ UNCHANGED avars
    \/ ReadLineAgain /\ UNCHANGED avars

SpecEof == Init /\ [][NextEof]_vars

\* the last read_line call fetched the end-of-stream value
FetchedEof == \E k \in (rl_rd + 1)..rd : stream[k] = FDEV_EOF

\* C12: a read_line call that meets the end of stream returns STAT_EOF, with the
\* cursor at the number of characters of the incomplete line.
C12_EofReported ==
    FetchedEof => (rl_stat = STAT_EOF /\ index = rl_entry + (rd - rl_rd) - 1)

(***************************************************************************)
(* read_line() one statement at a time: the entry test at line 153, then   *)
(* one pass of the for loop per step, with bytes arriving in between.      *)
(***************************************************************************)
Running == "running"

\* the call and line 153
StepEnter(i, sz) ==
    /\ ~run.active
    /\ buffer' = Clean
    /\ index' = i
    /\ size' = sz
    /\ rl_entry' = i
    /\ rl_rd' = rd
    /\ IF i >= sz
       THEN rl_stat' = STAT_FILE_SIZE_EXCEEDED /\ run' = Idle
       ELSE rl_stat' = Running /\ run' = [active |-> TRUE, fetches |-> 0, dry |-> 0]
    /\ UNCHANGED <<stream, rd, seq_start, seq_index, seq_buf, seq_calls>>
    /\ UNCHANGED <<steps, lines>>
    /\ UNCHANGED xvars

\* a for loop that fetches again when read_char() had nothing
StepLoop_waits ==
    /\ run.active
    /\ IF ~(index < size)
       THEN /\ rl_stat' = STAT_BUFFER_FULL
            /\ run' = [run EXCEPT !.active = FALSE]
            /\ UNCHANGED <<buffer, index, rd>>
       ELSE LET c == read_char(Pending, 0) IN
            IF c # FDEV_ERR
            THEN /\ rd' = rd + 1
                 /\ IF (c = LF) \/ (c = CR)
                    THEN /\ buffer' = [buffer EXCEPT ![index] = NUL]
                         /\ rl_stat' = STAT_OK
                         /\ run' = [run EXCEPT !.active = FALSE, !.fetches = @ + 1]
                         /\ UNCHANGED index
                    ELSE /\ buffer' = [buffer EXCEPT ![index] = c % ByteMod]
                         /\ index' = (index + 1) % IndexMod
                         /\ run' = [run EXCEPT !.fetches = @ + 1]
                         /\ UNCHANGED rl_stat
            ELSE /\ run' = [run EXCEPT !.dry = IF @ < 2 THEN @ + 1 ELSE @]
                 /\ UNCHANGED <<buffer, index, rd, rl_stat>>
    /\ UNCHANGED <<stream, size, rl_entry, rl_rd, seq_start, seq_index, seq_buf, seq_calls>>
    /\ UNCHANGED <<steps, lines>>
    /\ UNCHANGED xvars

\* lines 155-166: the loop test, and if it passes one fetch and what follows it
StepLoop ==
    /\ run.active
    /\ IF ~(index < size)
       THEN /\ rl_stat' = STAT_BUFFER_FULL
            /\ run' = [run EXCEPT !.active = FALSE]
            /\ UNCHANGED <<buffer, index, rd>>
       ELSE LET c == read_char(Pending, 0) IN
            IF c # FDEV_ERR
            THEN /\ rd' = rd + 1
                 /\ IF (c = LF) \/ (c = CR)
                    THEN /\ buffer' = [buffer EXCEPT ![index] = NUL]
                         /\ rl_stat' = STAT_OK
                         /\ run' = [run EXCEPT !.active = FALSE, !.fetches = @ + 1]
                         /\ UNCHANGED index
                    ELSE /\ buffer' = [buffer EXCEPT ![index] = c % ByteMod]
                         /\ index' = (index + 1) % IndexMod
                         /\ run' = [run EXCEPT !.fetches = @ + 1]
                         /\ UNCHANGED rl_stat
            ELSE /\ rl_stat' = STAT_EAGAIN
                 /\ run' = [run EXCEPT !.active = FALSE, !.dry = @ + 1]
                 /\ UNCHANGED <<buffer, index, rd>>
    /\ UNCHANGED <<stream, size, rl_entry, rl_rd, seq_start, seq_index, seq_buf, seq_calls>>
    /\ UNCHANGED <<steps, lines>>
    /\ UNCHANGED xvars

NextSteps ==
    \/ (\E b \in Bytes : Receive(b)) /\ UNCHANGED avars
    \/ \E sz \in 0..MaxSize : \E i \in 0..(MaxSize + 1) : StepEnter(i, sz)
    \/ StepLoop

SpecSteps == Init /\ [][NextSteps]_vars

\* the processor keeps executing a call that is in progress
SpecStepsFair == SpecSteps /\ WF_vars(StepLoop)

\* fetches a call may make: size minus its entry cursor
FetchBudget == IF size > rl_entry THEN size - rl_entry ELSE 0

\* C13: a read_line call makes at most (size - entry cursor) fetches, counting the
\* one that finds no data; it makes no fetch after a fetch that found no data but
\* returns STAT_EAGAIN at once; and whatever arrives or fails to arrive at the
\* byte source, a call in progress returns.
C13_NeverWaits ==
    /\ [](/\ run.fetches + run.dry <= FetchBudget
          /\ run.dry <= 1
          /\ (run.dry = 1) => (~run.active /\ rl_stat = STAT_EAGAIN)
          /\ index = rl_entry + run.fetches - (IF rl_stat = STAT_OK THEN 1 ELSE 0))
    /\ (run.active ~> ~run.active)

\* a call that took one byte, found the source empty at its second fetch and
\* returned with room left in the buffer
C13_Witness ==
    /\ ~run.active
    /\ rl_stat = STAT_EAGAIN
    /\ run.fetches = 1
    /\ run.dry = 1
    /\ size = 3
    /\ rl_entry = 0

(***************************************************************************)
(* write(), and the whole program: every operation of the file, in any     *)
(* order, for runs of up to MaxSteps operations.                           *)
(***************************************************************************)
\* a write that takes a short count from SerialUSB.write() as a disconnect
write_drops_connection(n) ==
    \E written \in 0..n :
        /\ last' = [op |-> "write", arg |-> written, stat |-> "void"]
        /\ xio_d' = IF written < n
                    THEN [xio_d EXCEPT ![DEV_USB0].next_state = DEVICE_NOT_CONNECTED]
                    ELSE xio_d
        /\ UNCHANGED <<pc, magic_start, magic_end, xio_c, spi_state, pins, notes, observed>>
        /\ UNCHANGED rvars

\* write(): hands n bytes to SerialUSB.write() and returns the count it reports
write(n) ==
    \E written \in 0..n :
        /\ last' = [op |-> "write", arg |-> written, stat |-> "void"]
        /\ UNCHANGED <<pc, magic_start, magic_end, xio_d, xio_c, spi_state, pins, notes, observed>>
        /\ UNCHANGED rvars

Tick ==
    /\ steps < MaxSteps
    /\ steps' = steps + 1
    /\ UNCHANGED <<run, lines>>

NextAll ==
    \/ Tick /\ (\E b \in Bytes : Receive(b))
    \/ Tick /\ (\E sz \in 0..MaxSize : ReadLineNew(0, sz))
    \/ Tick /\ ReadLineAgain
    \/ Tick /\ (\E n \in 0..MaxSize : write(n))
    \/ Tick /\ xio_init
    \/ Tick /\ (\E dv \in Devs : \E connected \in BOOLEAN : connection_callback(dv, connected))
    \/ Tick /\ xio_callback
    \/ Tick /\ xio_test_assertions
    \/ Tick /\ (\E v \in SpiValues : xio_set_spi(v))

SpecAll == Init /\ [][NextAll]_vars

\* C15: once xio_init has run, a step that changes a device's next_state is that
\* device's connection notification, storing CONNECTED or NOT_CONNECTED, or is
\* xio_callback storing 0; a step that changes a device's current_state is
\* xio_callback; and read_line, write, xio_test_assertions and xio_set_spi leave
\* every device record as it was.
C15_SingleWriter ==
    [][(pc = "run") =>
        /\ \A dv \in Devs :
              (xio_d'[dv].next_state # xio_d[dv].next_state)
                  => \/ /\ \E connected \in BOOLEAN : connection_callback(dv, connected)
                        /\ xio_d'[dv].next_state \in {DEVICE_CONNECTED, DEVICE_NOT_CONNECTED}
                     \/ /\ xio_callback
                        /\ xio_d'[dv].next_state = 0
        /\ \A dv \in Devs :
              (xio_d'[dv].current_state # xio_d[dv].current_state) => xio_callback
        /\ (\/ ReadLineStep
            \/ \E n \in 0..MaxSize : write(n)
            \/ xio_test_assertions
            \/ \E v \in SpiValues : xio_set_spi(v))
               => UNCHANGED xio_d
       ]_vars

\* a notification is pending on the first device and a short write has just
\* returned without touching it
C15_Witness ==
    /\ pc = "run"
    /\ last.op = "write"
    /\ last.arg = 0
    /\ xio_d[DEV_USB0].next_state = DEVICE_CONNECTED
    /\ xio_d[DEV_USB0].current_state = 0

(***************************************************************************)
(* A caller that collects lines: one buffer size throughout, the cursor    *)
(* reset to 0 after STAT_OK and after STAT_BUFFER_FULL, the call repeated  *)
(* with the cursor as left after STAT_EAGAIN.                              *)
(***************************************************************************)
\* the first n bytes of a buffer
Str(buf, n) == [k \in 1..n |-> buf[k - 1]]

\* what the caller keeps of the call that has just returned
Deliver ==
    /\ lines' = IF rl_stat' \in {STAT_OK, STAT_BUFFER_FULL}
                THEN Append(lines, [str |-> Str(buffer', index'), stat |-> rl_stat'])
                ELSE lines
    /\ UNCHANGED <<run, steps>>

LineStart(sz) ==
    /\ rl_stat \in {"none", STAT_OK, STAT_BUFFER_FULL}
    /\ (rl_stat = "none") \/ (sz = size)
    /\ ReadLineNew(0, sz)
    /\ Deliver

LineRetry ==
    /\ rl_stat = STAT_EAGAIN
    /\ ReadLineAgain
    /\ Deliver

NextLines ==
    \/ (\E b \in Bytes : Receive(b)) /\ UNCHANGED avars
    \/ \E sz \in 1..MaxSize : LineStart(sz)
    \/ LineRetry

SpecLines == Init /\ [][NextLines]_vars

\* the bytes fetched so far
Consumed == SubSeq(stream, 1, rd)

\* the input cut after every CR and every LF: the complete lines, in order
RECURSIVE SplitAt(_, _)
SplitAt(s, cur) ==
    IF s = <<>> THEN <<>>
    ELSE IF Head(s) \in Terminators
         THEN <<cur>> \o SplitAt(Tail(s), <<>>)
         ELSE SplitAt(Tail(s), Append(cur, Head(s)))

\* the bytes after the last cut
RECURSIVE Unfinished(_, _)
Unfinished(s, cur) ==
    IF s = <<>> THEN cur
    ELSE IF Head(s) \in Terminators
         THEN Unfinished(Tail(s), <<>>)
         ELSE Unfinished(Tail(s), Append(cur, Head(s)))

\* the longest stretch of bytes without a CR or LF
RECURSIVE LongestRun(_, _)
LongestRun(s, cur) ==
    IF s = <<>> THEN cur
    ELSE IF Head(s) \in Terminators
         THEN LET rest == LongestRun(Tail(s), 0) IN IF cur > rest THEN cur ELSE rest
         ELSE LongestRun(Tail(s), cur + 1)

\* C17: when no stretch of the input between terminators is longer than size - 1,
\* the strings returned with STAT_OK are, in order, the input cut after every CR
\* and every LF, every call so far that returned a line returned STAT_OK, and the
\* bytes fetched since the last cut are the ones in the buffer below the cursor.
C17_LinesAreSplit ==
    (rl_stat # "none" /\ LongestRun(stream, 0) <= size - 1)
        => /\ [k \in 1..Len(lines) |-> lines[k].str] = SplitAt(Consumed, <<>>)
           /\ \A k \in 1..Len(lines) : lines[k].stat = STAT_OK
           /\ (rl_stat = STAT_EAGAIN) => Str(buffer, index) = Unfinished(Consumed, <<>>)
           /\ (rl_stat = STAT_OK) => Unfinished(Consumed, <<>>) = <<>>

\* "A", CR, LF has given the line "A" and then an empty line
C17_Witness ==
    /\ stream = <<65, CR, LF>>
    /\ rd = 3
    /\ Len(lines) = 2
    /\ lines[1] = [str |-> <<65>>, stat |-> STAT_OK]
    /\ lines[2] = [str |-> <<>>, stat |-> STAT_OK]
    /\ index = 0

\* the input cut after every CR and LF and after every size bytes without one
RECURSIVE Chunks(_, _, _)
Chunks(s, sz, cur) ==
    IF s = <<>> THEN <<>>
    ELSE IF Head(s) \in Terminators
         THEN <<[str |-> cur, stat |-> STAT_OK]>> \o Chunks(Tail(s), sz, <<>>)
         ELSE IF Len(cur) + 1 = sz
              THEN <<[str |-> Append(cur, Head(s)), stat |-> STAT_BUFFER_FULL]>>
                   \o Chunks(Tail(s), sz, <<>>)
              ELSE Chunks(Tail(s), sz, Append(cur, Head(s)))

\* bytes a list of returned lines accounts for: those stored, and one terminator
\* for each line returned with STAT_OK
RECURSIVE Accounted(_)
Accounted(ls) ==
    IF ls = <<>> THEN 0
    ELSE Len(Head(ls).str) + (IF Head(ls).stat = STAT_OK THEN 1 ELSE 0) + Accounted(Tail(ls))

\* C18: the bytes fetched are exactly the bytes stored plus the terminators
\* replaced by NUL; a call returning STAT_BUFFER_FULL has fetched size bytes of
\* the line and no more, so the lines returned are the input cut after every
\* terminator and after every size bytes without one: what follows the cut of an
\* over-long line comes back as the next line.
C18_NothingFetchedIsLost ==
    (rl_stat # "none")
        => /\ rd = Accounted(lines) + (IF rl_stat = STAT_EAGAIN THEN index ELSE 0)
           /\ lines = Chunks(Consumed, size, <<>>)
           /\ (rl_stat = STAT_BUFFER_FULL)
                 => /\ index = size
                    /\ lines[Len(lines)].str = SubSeq(stream, rd - size + 1, rd)

\* "AB", LF through a size 2 buffer: "AB" with STAT_BUFFER_FULL, then the rest of
\* the line, its terminator alone, as an empty line
C18_Witness ==
    /\ stream = <<65, 66, LF>>
    /\ size = 2
    /\ rd = 3
    /\ lines = <<[str |-> <<65, 66>>, stat |-> STAT_BUFFER_FULL],
                 [str |-> <<>>, stat |-> STAT_OK]>>

====
